---------------------------- MODULE Spec2Model ----------------------------
(***************************************************************************)
(* Model of lightning/verification/checksum.go (the KVChecksum            *)
(* accumulator) and of LogConfig.Adjust in lightning/common/log.go.       *)
(*                                                                         *)
(* A uint64 is modelled exactly, as the set of the positions of its 1     *)
(* bits (a subset of 0..63): XOR is the symmetric difference, + is a      *)
(* ripple-carry addition that drops the carry out of bit 63.              *)
(***************************************************************************)
EXTENDS Integers, Sequences, FiniteSets

(***************************************************************************)
(* uint64 arithmetic                                                       *)
(***************************************************************************)
\* the width of the three fields of KVChecksum (uint64)
Width == 64

Bits == 0 .. (Width - 1)

\* a small natural number (< 2^31) as a uint64
U64(n) == {i \in 0 .. 30 : (n \div (2 ^ i)) % 2 = 1}

Zero64 == {}

\* a ^ b
Xor(a, b) == (a \ b) \cup (b \ a)

\* ^a
Not64(a) == Bits \ a

\* a >> n
Shr(a, n) == {i - n : i \in {j \in a : j >= n}}

\* the number whose 1 bits are at the positions of s (fewer than 31)
RECURSIVE BitsToNat(_)
BitsToNat(s) ==
    IF s = {} THEN 0
    ELSE LET i == CHOOSE j \in s : TRUE IN (2 ^ i) + BitsToNat(s \ {i})

\* bits 16k .. 16k+15 of a, as a number
Limb(a, k) == BitsToNat({i - 16 * k : i \in {j \in a : j \div 16 = k}})

\* the uint64 whose four 16-bit limbs are the low 16 bits of l0 .. l3
OfLimbs(l0, l1, l2, l3) ==
    LET l == <<l0, l1, l2, l3>>
    IN  {i \in Bits : (l[(i \div 16) + 1] \div (2 ^ (i % 16))) % 2 = 1}

\* a + b on uint64, limb by limb with the carry: the carry out of the top
\* limb is dropped, so the sum wraps modulo 2^64
Add64(a, b) ==
    LET s0 == Limb(a, 0) + Limb(b, 0)
        s1 == Limb(a, 1) + Limb(b, 1) + (s0 \div 65536)
        s2 == Limb(a, 2) + Limb(b, 2) + (s1 \div 65536)
        s3 == Limb(a, 3) + Limb(b, 3) + (s2 \div 65536)
    IN  OfLimbs(s0, s1, s2, s3)

\* the value of the low byte of a uint64: byte(a)
LowByte(a) == BitsToNat({i \in a : i < 8})

\* x ^ y on two bytes
XorByte(x, y) == BitsToNat(Xor(U64(x), U64(y)))

\* a uint64 written as its 8 bytes, most significant first
FromBytes(bs) ==
    UNION {{8 * (8 - k) + i : i \in U64(bs[k])} : k \in 1 .. 8}

(***************************************************************************)
(* hash/crc64 as used by checksum.go: crc64.MakeTable(crc64.ECMA) and     *)
(* crc64.Update(crc, table, bytes)                                         *)
(***************************************************************************)
\* crc64.ECMA = 0xC96C5795D7870F42
ECMA == FromBytes(<<201, 108, 87, 149, 215, 135, 15, 66>>)

RECURSIVE TableEntry(_, _, _)
TableEntry(poly, crc, j) ==
    IF j = 0 THEN crc
    ELSE TableEntry(poly,
                    IF 0 \in crc THEN Xor(Shr(crc, 1), poly) ELSE Shr(crc, 1),
                    j - 1)

\* crc64.MakeTable(poly)
MakeTable(poly) == [i \in 0 .. 255 |-> TableEntry(poly, U64(i), 8)]

\* var ecmaTable = crc64.MakeTable(crc64.ECMA)
ecmaTable == MakeTable(ECMA)

RECURSIVE crcLoop(_, _, _, _)
crcLoop(crc, tab, p, k) ==
    IF k > Len(p) THEN crc
    ELSE crcLoop(Xor(tab[XorByte(LowByte(crc), p[k])], Shr(crc, 8)), tab, p, k + 1)

\* crc64.Update(crc, tab, p): the rolling update, inverted before and after
crc64Update(crc, tab, p) == Not64(crcLoop(Not64(crc), tab, p, 1))

(***************************************************************************)
(* []byte values.  A Go slice is nil or not, and has its bytes; a nil     *)
(* slice has length 0 and ranges over nothing.                             *)
(***************************************************************************)
NilSlice == [nil |-> TRUE, b |-> <<>>]

Slice(s) == [nil |-> FALSE, b |-> s]

\* len(p)
len(p) == Len(p.b)

(***************************************************************************)
(* KVChecksum                                                              *)
(***************************************************************************)
\* NewKVChecksum with the argument dropped: every field zero
NewKVChecksum_IgnoresArgument(checksum) ==
    [bytes |-> Zero64, kvs |-> Zero64, checksum |-> Zero64]

\* func NewKVChecksum(checksum uint64) *KVChecksum
NewKVChecksum(checksum) ==
    [bytes |-> Zero64, kvs |-> Zero64, checksum |-> checksum]

\* func MakeKVChecksum(bytes uint64, kvs uint64, checksum uint64) KVChecksum
MakeKVChecksum(bytes, kvs, checksum) ==
    [bytes |-> bytes, kvs |-> kvs, checksum |-> checksum]

\* the digest with key and value hashed apart, each from seed 0, and XORed
PairSum_HashesApart(pair) ==
    Xor(crc64Update(Zero64, ecmaTable, pair.Key.b),
        crc64Update(Zero64, ecmaTable, pair.Val.b))

\* the two crc64.Update calls of the loop body: the CRC of the key from
\* seed 0, continued over the value
PairSum(pair) ==
    crc64Update(crc64Update(Zero64, ecmaTable, pair.Key.b), ecmaTable, pair.Val.b)

\* the loop of Update with the CRC of a pair started from the running
\* checksum instead of 0
RECURSIVE UpdateLoop_ChainsCrc(_, _, _)
UpdateLoop_ChainsCrc(kvs, k, loc) ==
    IF k > Len(kvs) THEN loc
    ELSE UpdateLoop_ChainsCrc(kvs, k + 1,
            [checksum |-> Xor(loc.checksum,
                              crc64Update(crc64Update(loc.checksum, ecmaTable, kvs[k].Key.b),
                                          ecmaTable, kvs[k].Val.b)),
             kvNum    |-> loc.kvNum + 1,
             bytes    |-> loc.bytes + (Len(kvs[k].Key.b) + Len(kvs[k].Val.b))])

\* the loop of Update, skipping the pairs whose key is nil
RECURSIVE UpdateLoop_SkipsNilKey(_, _, _)
UpdateLoop_SkipsNilKey(kvs, k, loc) ==
    IF k > Len(kvs) THEN loc
    ELSE UpdateLoop_SkipsNilKey(kvs, k + 1,
            IF kvs[k].Key.nil THEN loc
            ELSE [checksum |-> Xor(loc.checksum,
                                   crc64Update(crc64Update(Zero64, ecmaTable, kvs[k].Key.b),
                                               ecmaTable, kvs[k].Val.b)),
                  kvNum    |-> loc.kvNum + 1,
                  bytes    |-> loc.bytes + (Len(kvs[k].Key.b) + Len(kvs[k].Val.b))])

\* the loop of Update over kvs[k..]: loc holds the locals checksum, kvNum, bytes
RECURSIVE UpdateLoop(_, _, _)
UpdateLoop(kvs, k, loc) ==
    IF k > Len(kvs) THEN loc
    ELSE UpdateLoop(kvs, k + 1,
                    [checksum |-> Xor(loc.checksum, PairSum(kvs[k])),
                     kvNum    |-> loc.kvNum + 1,
                     bytes    |-> loc.bytes + (len(kvs[k].Key) + len(kvs[k].Val))])

\* the locals of Update before the loop
NoLocals == [checksum |-> Zero64, kvNum |-> 0, bytes |-> 0]

\* the end of Update with c.checksum = checksum
UpdateStore_Assigns(h, c, loc) ==
    LET h1 == [h EXCEPT ![c].bytes = Add64(h[c].bytes, U64(loc.bytes))]
        h2 == [h1 EXCEPT ![c].kvs = Add64(h1[c].kvs, U64(loc.kvNum))]
    IN  [h2 EXCEPT ![c].checksum = loc.checksum]

\* the end of Update, on the memory h that holds the accumulators: c is the
\* receiver's place in h, loc the locals after the loop; the memory afterwards
UpdateStore(h, c, loc) ==
    LET h1 == [h EXCEPT ![c].bytes = Add64(h[c].bytes, U64(loc.bytes))]
        h2 == [h1 EXCEPT ![c].kvs = Add64(h1[c].kvs, U64(loc.kvNum))]
    IN  [h2 EXCEPT ![c].checksum = Xor(h2[c].checksum, loc.checksum)]

\* func (c *KVChecksum) Update(kvs []kvec.KvPair)
Update(h, c, kvs) == UpdateStore(h, c, UpdateLoop(kvs, 1, NoLocals))

\* Add without c.kvs += other.kvs
Add_DropsKvs(h, c, other) ==
    LET h1 == [h EXCEPT ![c].bytes = Add64(h[c].bytes, h[other].bytes)]
    IN  [h1 EXCEPT ![c].checksum = Xor(h1[c].checksum, h1[other].checksum)]

\* Add with c.checksum += other.checksum
Add_SumsChecksums(h, c, other) ==
    LET h1 == [h EXCEPT ![c].bytes = Add64(h[c].bytes, h[other].bytes)]
        h2 == [h1 EXCEPT ![c].kvs = Add64(h1[c].kvs, h1[other].kvs)]
    IN  [h2 EXCEPT ![c].checksum = Add64(h2[c].checksum, h2[other].checksum)]

\* Add that takes other's totals away from it
Add_EmptiesOther(h, c, other) ==
    LET h1 == [h EXCEPT ![c].bytes = Add64(h[c].bytes, h[other].bytes)]
        h2 == [h1 EXCEPT ![c].kvs = Add64(h1[c].kvs, h1[other].kvs)]
        h3 == [h2 EXCEPT ![c].checksum = Xor(h2[c].checksum, h2[other].checksum)]
    IN  [h3 EXCEPT ![other] = [bytes |-> Zero64, kvs |-> Zero64, checksum |-> Zero64]]

\* func (c *KVChecksum) Add(other *KVChecksum): c and other are places in h
\* (the same place in c.Add(c)); the three assignments in their order
Add(h, c, other) ==
    LET h1 == [h EXCEPT ![c].bytes = Add64(h[c].bytes, h[other].bytes)]
        h2 == [h1 EXCEPT ![c].kvs = Add64(h1[c].kvs, h1[other].kvs)]
    IN  [h2 EXCEPT ![c].checksum = Xor(h2[c].checksum, h2[other].checksum)]

Sum(c) == c.checksum

SumSize(c) == c.bytes

SumKVS(c) == c.kvs

(***************************************************************************)
(* Inputs                                                                  *)
(***************************************************************************)
\* the keys and the values of the pairs fed to Update: nil, and "a" / "b"
Keys == {NilSlice, Slice(<<97>>)}

Vals == {NilSlice, Slice(<<98>>)}

KvPairs == [Key : Keys, Val : Vals]

\* the sequences of at most n elements of S
RECURSIVE SeqsUpTo(_, _)
SeqsUpTo(S, n) ==
    IF n = 0 THEN {<<>>}
    ELSE LET shorter == SeqsUpTo(S, n - 1)
         IN  shorter \cup {Append(b, p) : b \in {x \in shorter : Len(x) = n - 1}, p \in S}

\* most pairs in one call of Update
MaxBatch == 3

Batches == SeqsUpTo(KvPairs, MaxBatch)

\* the batches of at most n pairs, n = 0 .. MaxBatch
BatchesUpTo == [n \in 0 .. MaxBatch |-> {b \in Batches : Len(b) <= n}]

Min(x, y) == IF x <= y THEN x ELSE y

\* 0xFFFFFFFFFFFFFFFF
Max64 == Bits

\* the checksums handed to NewKVChecksum: 0 and the digest of ("a", "b")
SeedSums == {Zero64, PairSum([Key |-> Slice(<<97>>), Val |-> Slice(<<98>>)])}

\* the triples handed to MakeKVChecksum
Targets == {<<Max64, U64(3), PairSum([Key |-> Slice(<<97>>), Val |-> NilSlice])>>}

\* the constructor calls of a run
CtorCalls ==
    {<<"NewKVChecksum", s>> : s \in SeedSums}
        \cup {<<"MakeKVChecksum", t[1], t[2], t[3]>> : t \in Targets}

Triple(c) == <<c.bytes, c.kvs, c.checksum>>

Construct(call) ==
    IF call[1] = "NewKVChecksum" THEN NewKVChecksum(call[2])
    ELSE MakeKVChecksum(call[2], call[3], call[4])

(***************************************************************************)
(* Bags, for the history variables                                         *)
(***************************************************************************)
EmptyBag(S) == [x \in S |-> 0]

BagPlus(b1, b2) == [x \in DOMAIN b1 |-> b1[x] + b2[x]]

\* the elements of a bag, each as often as it is in the bag
RECURSIVE ItemsOf(_, _)
ItemsOf(bag, S) ==
    IF S = {} THEN <<>>
    ELSE LET x == CHOOSE y \in S : TRUE
         IN  [k \in 1 .. bag[x] |-> x] \o ItemsOf(bag, S \ {x})

Items(bag) == ItemsOf(bag, DOMAIN bag)

BagSize(bag) == Len(Items(bag))

RECURSIVE BagOfSeq(_, _)
BagOfSeq(S, s) ==
    IF s = <<>> THEN EmptyBag(S)
    ELSE LET rest == BagOfSeq(S, Tail(s))
         IN  [rest EXCEPT ![Head(s)] = @ + 1]

(***************************************************************************)
(* State.  heap holds the accumulators of a run, each at its place.  The  *)
(* other variables are history variables of the four runs modelled below  *)
(* and the state of LogConfig.Adjust; a run leaves the variables of the    *)
(* other runs at their idle values.                                        *)
(***************************************************************************)
VARIABLES
    heap,      \* place -> KVChecksum
    ctor,      \* place -> the constructor call that made the accumulator
    made,      \* place -> bag of the constructor calls that reached it
    folded,    \* place -> bag of the pairs that reached it
    log,       \* place -> the batches passed to its Update calls, in order
    owner,     \* index into Dataset -> the worker whose partition holds it
    done,      \* worker -> the indexes of Dataset it has folded
    loc,       \* worker -> the locals of its running Update call
    fin,       \* the workers that finished their partition
    into,      \* worker -> the place its accumulator was merged into
    pairs,     \* the two pairs whose digests are compared
    sums,      \* their digests, once computed
    cfg,       \* the LogConfig
    orig,      \* the LogConfig as loaded
    adjusted   \* the number of Adjust calls made

heapVars == <<ctor, made, folded>>

orderVars == <<log>>

parVars == <<owner, done, loc, fin, into>>

digestVars == <<pairs, sums>>

logVars == <<cfg, orig, adjusted>>

vars == <<heap, heapVars, orderVars, parVars, digestVars, logVars>>

None == <<>>

HeapIdle == ctor = None /\ made = None /\ folded = None

OrderIdle == log = None

ParIdle == owner = None /\ done = None /\ loc = None /\ fin = {} /\ into = None

DigestIdle == pairs = None /\ sums = None

LogIdle == cfg = None /\ orig = None /\ adjusted = 0

(***************************************************************************)
(* Spec: two accumulators, heap[1] and heap[2], built by either            *)
(* constructor, and any calls of Update and Add on them.                   *)
(***************************************************************************)
Accs == {1, 2}

\* most pairs folded in a run, over both accumulators
MaxFolded == 3

\* most constructor calls folded in a run, over both accumulators
MaxMade == 3

TotalFolded == BagSize(folded[1]) + BagSize(folded[2])

TotalMade == BagSize(made[1]) + BagSize(made[2])

Init ==
    /\ ctor \in [Accs -> CtorCalls]
    /\ heap = [i \in Accs |-> Construct(ctor[i])]
    /\ made = [i \in Accs |-> [EmptyBag(CtorCalls) EXCEPT ![ctor[i]] = 1]]
    /\ folded = [i \in Accs |-> EmptyBag(KvPairs)]
    /\ OrderIdle /\ ParIdle /\ DigestIdle /\ LogIdle

\* heap[i].Update(kvs)
CallUpdate ==
    \E i \in Accs, kvs \in BatchesUpTo[Min(MaxBatch, MaxFolded - TotalFolded)] :
        /\ heap' = Update(heap, i, kvs)
        /\ folded' = [folded EXCEPT ![i] = BagPlus(@, BagOfSeq(KvPairs, kvs))]
        /\ UNCHANGED <<ctor, made, orderVars, parVars, digestVars, logVars>>

\* heap[i].Add(&heap[j]); i = j is c.Add(c)
CallAdd ==
    \E i \in Accs, j \in Accs :
        /\ TotalFolded + BagSize(folded[j]) <= MaxFolded
        /\ TotalMade + BagSize(made[j]) <= MaxMade
        /\ heap' = Add(heap, i, j)
        /\ folded' = [folded EXCEPT ![i] = BagPlus(@, folded[j])]
        /\ made' = [made EXCEPT ![i] = BagPlus(@, made[j])]
        /\ UNCHANGED <<ctor, orderVars, parVars, digestVars, logVars>>

Next == CallUpdate \/ CallAdd

Spec == Init /\ [][Next]_vars

(***************************************************************************)
(* What the history says an accumulator must hold                          *)
(***************************************************************************)
\* the triple a constructor call is given
CallBytes(call) == IF call[1] = "NewKVChecksum" THEN Zero64 ELSE call[2]

CallKvs(call) == IF call[1] = "NewKVChecksum" THEN Zero64 ELSE call[3]

CallSum(call) == IF call[1] = "NewKVChecksum" THEN call[2] ELSE call[4]

\* len(key) + len(value), a nil key or value counting 0 bytes
PairLen(pair) ==
    (IF pair.Key.nil THEN 0 ELSE Len(pair.Key.b))
        + (IF pair.Val.nil THEN 0 ELSE Len(pair.Val.b))

RECURSIVE XorAll(_)
XorAll(words) == IF words = <<>> THEN Zero64 ELSE Xor(Head(words), XorAll(Tail(words)))

RECURSIVE SumAll(_)
SumAll(words) == IF words = <<>> THEN Zero64 ELSE Add64(Head(words), SumAll(Tail(words)))

RECURSIVE NatSum(_)
NatSum(ns) == IF ns = <<>> THEN 0 ELSE Head(ns) + NatSum(Tail(ns))

\* the digests, and the lengths, of a sequence of pairs
PairSums(kvs) == [k \in 1 .. Len(kvs) |-> PairSum(kvs[k])]

PairLens(kvs) == [k \in 1 .. Len(kvs) |-> PairLen(kvs[k])]

\* the XOR of the digests of the pairs of a bag, each occurrence counted
DigestXor(bag) == XorAll(PairSums(Items(bag)))

\* the triple of an accumulator that was reached by the constructor calls
\* of bag calls and by the pairs of bag kvs
Expected(calls, kvs) ==
    LET cs == Items(calls)
    IN  [bytes    |-> Add64(SumAll([k \in 1 .. Len(cs) |-> CallBytes(cs[k])]),
                            U64(NatSum(PairLens(Items(kvs))))),
         kvs      |-> Add64(SumAll([k \in 1 .. Len(cs) |-> CallKvs(cs[k])]),
                            U64(BagSize(kvs))),
         checksum |-> Xor(XorAll([k \in 1 .. Len(cs) |-> CallSum(cs[k])]), DigestXor(kvs))]

\* C4 as claimed: the checksum is the XOR of the digests of the pairs folded
\* in, bytes and kvs are the sums over those pairs, in every state of every
\* accumulator
C4_PairsOnly ==
    \A i \in Accs :
        /\ heap[i].checksum = DigestXor(folded[i])
        /\ heap[i].bytes = U64(NatSum(PairLens(Items(folded[i]))))
        /\ heap[i].kvs = U64(BagSize(folded[i]))

\* C4, amended: in every state, an accumulator's checksum is the XOR of the
\* checksums given to the constructors of the accumulators that reached it
\* (itself and those merged by Add) and of the digests of the pairs folded
\* in, directly or through Add; bytes and kvs are, modulo 2^64, the
\* constructors' bytes and kvs plus the sums over those pairs
C4_ChecksumIsXorOfHistory ==
    \A i \in Accs : heap[i] = Expected(made[i], folded[i])

\* an accumulator that was updated, merged into from the other one, and
\* whose byte count wrapped
C4_Witness ==
    \E i \in Accs :
        /\ BagSize(folded[i]) >= 2
        /\ \E c \in CtorCalls : c[1] = "MakeKVChecksum" /\ made[i][c] = 1
        /\ made[i][ctor[i]] = 1 /\ ctor[i][1] = "NewKVChecksum"
        /\ heap[i].bytes = U64(1)
\* the accumulator at i was constructed and nothing was folded into it since
Fresh(i) ==
    /\ folded[i] = EmptyBag(KvPairs)
    /\ made[i] = [EmptyBag(CtorCalls) EXCEPT ![ctor[i]] = 1]

FreshNew(i) == Fresh(i) /\ ctor[i][1] = "NewKVChecksum"

\* the step is heap[i].Add(&heap[j])
IsAdd(i, j) ==
    /\ made' = [made EXCEPT ![i] = BagPlus(@, made[j])]
    /\ folded' = [folded EXCEPT ![i] = BagPlus(@, folded[j])]

\* C6 as claimed: an accumulator fresh from NewKVChecksum has SumSize() = 0,
\* SumKVS() = 0 and Sum() = 0, and Add of it into any accumulator leaves
\* that accumulator unchanged
C6_FreshIsZero ==
    [][/\ \A i \in Accs :
              FreshNew(i) =>
                  /\ SumSize(heap[i]) = Zero64
                  /\ SumKVS(heap[i]) = Zero64
                  /\ Sum(heap[i]) = Zero64
       /\ \A i, j \in Accs :
              FreshNew(j) /\ IsAdd(i, j) => heap'[i] = heap[i]]_vars

\* C6, amended: an accumulator fresh from NewKVChecksum(s) has SumSize() = 0,
\* SumKVS() = 0 and Sum() = s, the checksum it was given; one fresh from
\* NewKVChecksum(0) is the identity of merge: Add of it into any accumulator
\* leaves that accumulator's triple unchanged
C6_FreshHoldsItsSeed ==
    [][/\ \A i \in Accs :
              FreshNew(i) =>
                  /\ SumSize(heap[i]) = Zero64
                  /\ SumKVS(heap[i]) = Zero64
                  /\ Sum(heap[i]) = ctor[i][2]
       /\ \A i, j \in Accs :
              FreshNew(j) /\ ctor[j][2] = Zero64 /\ IsAdd(i, j) => heap'[i] = heap[i]]_vars

\* a fresh NewKVChecksum(0) was merged into an accumulator that holds pairs
C6_Witness ==
    \E i, j \in Accs :
        /\ i # j
        /\ FreshNew(j) /\ ctor[j][2] = Zero64
        /\ ctor[i] # ctor[j]
        /\ made[i][ctor[j]] = 1 /\ made[i][ctor[i]] = 1
        /\ BagSize(folded[i]) > 0
        /\ heap[i].checksum # Zero64

\* C7: a pair folded into an accumulator an even number of times, by Update
\* or through Add, leaves the checksum what it is without the pair, while kvs
\* counts every occurrence and bytes the pair's bytes for every occurrence
C7_EvenOccurrencesCancel ==
    \A i \in Accs, p \in KvPairs :
        folded[i][p] > 0 /\ folded[i][p] % 2 = 0 =>
            LET without == Expected(made[i], [folded[i] EXCEPT ![p] = 0])
            IN  /\ heap[i].checksum = without.checksum
                /\ heap[i].kvs = Add64(without.kvs, U64(folded[i][p]))
                /\ heap[i].bytes = Add64(without.bytes, U64(folded[i][p] * PairLen(p)))

\* the same pair was folded into two empty accumulators and one was merged
\* into the other: checksum 0, two pairs counted
C7_Witness ==
    \E i, j \in Accs, p \in KvPairs :
        /\ i # j
        /\ PairSum(p) # Zero64
        /\ ctor[i] = <<"NewKVChecksum", Zero64>> /\ ctor[j] = ctor[i]
        /\ folded[j] = [EmptyBag(KvPairs) EXCEPT ![p] = 1]
        /\ folded[i] = [EmptyBag(KvPairs) EXCEPT ![p] = 2]
        /\ made[i][ctor[j]] = 2 /\ made[j][ctor[j]] = 1
        /\ Sum(heap[i]) = Zero64
        /\ SumKVS(heap[i]) = U64(2)
        /\ SumSize(heap[i]) = U64(2 * PairLen(p))

TypeOK ==
    \A i \in Accs :
        /\ DOMAIN heap[i] = {"bytes", "kvs", "checksum"}
        /\ heap[i].bytes \subseteq Bits
        /\ heap[i].kvs \subseteq Bits
        /\ heap[i].checksum \subseteq Bits

\* the bytes a slice ranges over: none when it is nil
BytesOf(p) == IF p.nil THEN <<>> ELSE p.b

\* the digest of a pair whose nil key or value is read as zero-length
DefinedSum(pair) ==
    crc64Update(Zero64, ecmaTable, BytesOf(pair.Key) \o BytesOf(pair.Val))

\* what Update does to one accumulator (before, after) when its history
\* goes from the bag old to the bag new: the batch is the difference
UpdateEffect(before, after, old, new) ==
    LET batch == [p \in KvPairs |-> new[p] - old[p]]
        items == Items(batch)
    IN  /\ after.kvs = Add64(before.kvs, U64(Len(items)))
        /\ after.bytes = Add64(before.bytes, U64(NatSum(PairLens(items))))
        /\ after.checksum =
               Xor(before.checksum, XorAll([k \in 1 .. Len(items) |-> DefinedSum(items[k])]))

\* C8: every call of Update and of Add ends with three uint64 fields; an
\* Update adds 1 to kvs for every pair of the batch, a nil key or value
\* included, adds len(key) + len(value) to bytes with a nil key or value
\* counting 0, and XORs in the digest of every pair with a nil key or value
\* read as zero-length
C8_NilIsZeroLength ==
    [][/\ TypeOK'
       /\ \A i \in Accs :
              made' = made /\ folded'[i] # folded[i] =>
                  UpdateEffect(heap[i], heap'[i], folded[i], folded'[i])]_vars

\* an accumulator that folded a pair with a nil key, one with a nil value
\* and one with both nil
C8_Witness ==
    \E i \in Accs :
        /\ folded[i][[Key |-> NilSlice, Val |-> NilSlice]] = 1
        /\ folded[i][[Key |-> NilSlice, Val |-> Slice(<<98>>)]] = 1
        /\ folded[i][[Key |-> Slice(<<97>>), Val |-> NilSlice]] = 1
        /\ ctor[i] = <<"NewKVChecksum", Zero64>>
        /\ SumKVS(heap[i]) = U64(3)
        /\ SumSize(heap[i]) = U64(2)

\* C9: a call changes the receiver only: an accumulator whose history the
\* step leaves alone (it is not the receiver of an Update or an Add) keeps
\* its triple, also when it is the argument of Add; and an accumulator made
\* by MakeKVChecksum that never was a receiver holds the triple it was made
\* with
C9_OnlyReceiverChanges ==
    [][/\ \A i \in Accs :
              folded'[i] = folded[i] /\ made'[i] = made[i] => heap'[i] = heap[i]
       /\ \A i \in Accs :
              (ctor[i][1] = "MakeKVChecksum" /\ Fresh(i))' =>
                  Triple(heap'[i]) = <<ctor[i][2], ctor[i][3], ctor[i][4]>>]_vars

\* a target made by MakeKVChecksum was merged into another accumulator and
\* still holds its triple
C9_Witness ==
    \E i, j \in Accs :
        /\ i # j
        /\ ctor[j][1] = "MakeKVChecksum" /\ Fresh(j)
        /\ ctor[i][1] = "NewKVChecksum"
        /\ made[i][ctor[j]] = 1
        /\ BagSize(folded[i]) > 0
        /\ Triple(heap[j]) = <<ctor[j][2], ctor[j][3], ctor[j][4]>>

(***************************************************************************)
(* SpecOrder: two accumulators started empty; heap[1] is fed by any        *)
(* sequence of Update calls, heap[2] by one Update call.                   *)
(***************************************************************************)
\* the pairs of these runs: the three of KvPairs with different digests
OrderPairs == {p \in KvPairs : ~(p.Key.nil /\ p.Val.nil)}

OrderBatches == SeqsUpTo(OrderPairs, MaxBatch) \ {<<>>}

RECURSIVE Flatten(_)
Flatten(ss) == IF ss = <<>> THEN <<>> ELSE Head(ss) \o Flatten(Tail(ss))

InitOrder ==
    /\ heap = [i \in Accs |-> NewKVChecksum(Zero64)]
    /\ log = [i \in Accs |-> <<>>]
    /\ HeapIdle /\ ParIdle /\ DigestIdle /\ LogIdle

\* heap[1].Update(kvs), any number of times
SplitUpdate ==
    \E kvs \in OrderBatches :
        /\ Len(Flatten(log[1])) + Len(kvs) <= MaxFolded
        /\ heap' = Update(heap, 1, kvs)
        /\ log' = [log EXCEPT ![1] = Append(@, kvs)]
        /\ UNCHANGED <<heapVars, parVars, digestVars, logVars>>

\* heap[2].Update(kvs), once
SingleUpdate ==
    \E kvs \in OrderBatches :
        /\ log[2] = <<>>
        /\ Len(kvs) <= MaxFolded
        /\ heap' = Update(heap, 2, kvs)
        /\ log' = [log EXCEPT ![2] = <<kvs>>]
        /\ UNCHANGED <<heapVars, parVars, digestVars, logVars>>

NextOrder == SplitUpdate \/ SingleUpdate

SpecOrder == InitOrder /\ [][NextOrder]_vars

\* C1: two accumulators started empty that folded the same multiset of
\* pairs hold the same (bytes, kvs, checksum), whatever the batches the
\* multiset was split into and the order of the batches and of the pairs
C1_SameMultisetSameTriple ==
    BagOfSeq(OrderPairs, Flatten(log[1])) = BagOfSeq(OrderPairs, Flatten(log[2]))
        => Triple(heap[1]) = Triple(heap[2])

\* Update([a,b]) then Update([c]) against Update([c,b,a])
C1_Witness ==
    \E a, b, c \in OrderPairs :
        /\ a # b /\ b # c /\ a # c
        /\ log[1] = <<(<<a, b>>), (<<c>>)>>
        /\ log[2] = <<(<<c, b, a>>)>>
        /\ Triple(heap[1]) = Triple(heap[2])
        /\ Sum(heap[1]) # Zero64

(***************************************************************************)
(* SpecPar: the pairs of Dataset are split into disjoint partitions, one   *)
(* per worker.  Every worker owns the accumulator at its place and calls   *)
(* Update on it until its partition is folded; the orchestrator merges     *)
(* the accumulators of finished workers with Add, into one another or      *)
(* into its running total at place Total.                                  *)
(***************************************************************************)
\* "k1" -> "v01", "k2" -> "v02", "k3" -> "v03": 5 bytes each
Dataset ==
    <<[Key |-> Slice(<<107, 49>>), Val |-> Slice(<<118, 48, 49>>)],
      [Key |-> Slice(<<107, 50>>), Val |-> Slice(<<118, 48, 50>>)],
      [Key |-> Slice(<<107, 51>>), Val |-> Slice(<<118, 48, 51>>)]>>

Rows == 1 .. Len(Dataset)

\* the number of workers
NumWorkers == 3

Workers == 1 .. NumWorkers

\* the place of the orchestrator's running total
Total == NumWorkers + 1

Places == {Total} \cup Workers

NotMerged == 0 - 1

\* the sequences of at most n different elements of S, none empty
RowSeqs(S, n) ==
    {q \in SeqsUpTo(S, n) : q # <<>> /\ \A x, y \in 1 .. Len(q) : x # y => q[x] # q[y]}

Todo(w) == {k \in Rows : owner[k] = w} \ done[w]

InitPar ==
    /\ owner \in [Rows -> Workers]
    /\ heap = [a \in Places |-> NewKVChecksum(Zero64)]
    /\ done = [w \in Workers |-> {}]
    /\ loc = [w \in Workers |-> <<>>]
    /\ fin = {}
    /\ into = [w \in Workers |-> NotMerged]
    /\ HeapIdle /\ OrderIdle /\ DigestIdle /\ LogIdle

\* worker w calls Update on a batch of its partition and runs the loop
WorkerLoop(w) ==
    /\ w \notin fin
    /\ loc[w] = <<>>
    /\ \E q \in RowSeqs(Todo(w), MaxBatch) :
           loc' = [loc EXCEPT ![w] =
                       <<q, UpdateLoop([k \in 1 .. Len(q) |-> Dataset[q[k]]], 1, NoLocals)>>]
    /\ UNCHANGED <<heap, owner, done, fin, into, heapVars, orderVars, digestVars, logVars>>

\* worker w's Update call stores its totals and returns
WorkerStore(w) ==
    /\ loc[w] # <<>>
    /\ heap' = UpdateStore(heap, w, loc[w][2])
    /\ done' = [done EXCEPT ![w] = @ \cup {loc[w][1][k] : k \in 1 .. Len(loc[w][1])}]
    /\ loc' = [loc EXCEPT ![w] = <<>>]
    /\ UNCHANGED <<owner, fin, into, heapVars, orderVars, digestVars, logVars>>

\* worker w has folded its partition
WorkerFinish(w) ==
    /\ w \notin fin
    /\ loc[w] = <<>>
    /\ Todo(w) = {}
    /\ fin' = fin \cup {w}
    /\ UNCHANGED <<heap, owner, done, loc, into, heapVars, orderVars, digestVars, logVars>>

\* the orchestrator merges a finished accumulator into the total or into
\* another finished accumulator: heap[dst].Add(&heap[src])
Join(dst, src) ==
    /\ src \in fin /\ into[src] = NotMerged
    /\ dst # src
    /\ dst = Total \/ (dst \in fin /\ into[dst] = NotMerged)
    /\ heap' = Add(heap, dst, src)
    /\ into' = [into EXCEPT ![src] = dst]
    /\ UNCHANGED <<owner, done, loc, fin, heapVars, orderVars, digestVars, logVars>>

NextPar ==
    \/ \E w \in Workers : WorkerLoop(w)
    \/ \E w \in Workers : WorkerStore(w)
    \/ \E w \in Workers : WorkerFinish(w)
    \/ \E dst \in Places, src \in Workers : Join(dst, src)

SpecPar == InitPar /\ [][NextPar]_vars

\* the rows an accumulator covers: those its worker has folded and those
\* covered by the accumulators merged into it
RECURSIVE Covered(_)
Covered(a) ==
    (IF a \in Workers THEN done[a] ELSE {})
        \cup UNION {Covered(s) : s \in {w \in Workers : into[w] = a}}

\* the rows of S in the order of Dataset
RECURSIVE RowsInOrder(_)
RowsInOrder(S) ==
    IF S = {} THEN <<>>
    ELSE LET k == CHOOSE x \in S : \A y \in S : x <= y
         IN  <<Dataset[k]>> \o RowsInOrder(S \ {k})

\* one accumulator started empty and Update-d once with the rows of S
OneUpdate(S) == Update([a \in {Total} |-> NewKVChecksum(Zero64)], Total, RowsInOrder(S))[Total]

\* C2: an accumulator holds what one Update of an empty accumulator with
\* the union of the partitions merged into it gives, however the merges
\* were grouped; and merging A with 10 bytes in 2 pairs, B with 5 bytes in
\* 1 pair and an empty C into A gives 15 bytes, 3 pairs and A's checksum
\* XOR B's
C2_MergeIsUpdateOfUnion ==
    /\ \A a \in Places : Triple(heap[a]) = Triple(OneUpdate(Covered(a)))
    /\ \A a, b, c \in Workers :
           (/\ Cardinality({a, b, c}) = 3
            /\ Cardinality(done[a]) = 2 /\ Cardinality(done[b]) = 1 /\ done[c] = {}
            /\ {w \in Workers : into[w] = a} = {b, c}
            /\ {w \in Workers : into[w] \in {b, c}} = {})
           => /\ SumSize(heap[a]) = U64(15)
              /\ SumKVS(heap[a]) = U64(3)
              /\ Sum(heap[a]) = Xor(Sum(OneUpdate(done[a])), Sum(heap[b]))
              /\ Triple(heap[b]) = <<U64(5), U64(1), Sum(OneUpdate(done[b]))>>

\* merge(merge(A, B), C) with A = (10, 2, X), B = (5, 1, Y), C = (0, 0, 0)
C2_Witness ==
    /\ owner = <<1, 1, 2>>
    /\ into[2] = 1 /\ into[3] = 1 /\ into[1] = NotMerged
    /\ Triple(heap[3]) = <<Zero64, Zero64, Zero64>>
    /\ SumSize(heap[2]) = U64(5) /\ SumKVS(heap[2]) = U64(1)
    /\ SumSize(heap[1]) = U64(15) /\ SumKVS(heap[1]) = U64(3)
    /\ Sum(heap[1]) # Zero64 /\ Sum(heap[1]) # Sum(heap[2])

\* one accumulator that processes the partitions one after the other, from
\* worker w on, h being its memory
RECURSIVE Sequential(_, _)
Sequential(h, w) ==
    IF w > NumWorkers THEN h
    ELSE Sequential(Update(h, Total, RowsInOrder({k \in Rows : owner[k] = w})), w + 1)

\* C3: when every worker's accumulator has been merged, the total holds the
\* triple of one accumulator that processes the union of the partitions
\* sequentially
C3_ParallelIsSequential ==
    (\A w \in Workers : into[w] # NotMerged)
        => Triple(heap[Total]) =
               Triple(Sequential([a \in {Total} |-> NewKVChecksum(Zero64)], 1)[Total])

\* every worker had pairs to fold, two accumulators were merged into one
\* another before reaching the total
C3_Witness ==
    /\ \A w \in Workers : into[w] # NotMerged /\ done[w] # {}
    /\ \E w, v \in Workers : into[w] = v /\ into[v] = Total
    /\ SumKVS(heap[Total]) = U64(Len(Dataset))
    /\ Sum(heap[Total]) # Zero64

(***************************************************************************)
(* SpecDigest: the digest Update computes for one pair, on two pairs.      *)
(***************************************************************************)
\* the bytes of the keys and values: "a", "b"
Alphabet == {97, 98}

\* most bytes in a key or a value
MaxLen == 2

ByteStrings == {Slice(b) : b \in SeqsUpTo(Alphabet, MaxLen)}

DigestPairs == [Key : ByteStrings, Val : ByteStrings]

InitDigest ==
    /\ pairs \in DigestPairs \X DigestPairs
    /\ sums = <<>>
    /\ heap = <<>>
    /\ HeapIdle /\ OrderIdle /\ ParIdle /\ LogIdle

\* the loop body's crc64.Update calls, for either pair
Digest ==
    /\ sums = <<>>
    /\ sums' = <<PairSum(pairs[1]), PairSum(pairs[2])>>
    /\ UNCHANGED <<heap, pairs, heapVars, orderVars, parVars, logVars>>

NextDigest == Digest

SpecDigest == InitDigest /\ [][NextDigest]_vars

Concat(pair) == pair.Key.b \o pair.Val.b

Swapped(pair) == [Key |-> pair.Val, Val |-> pair.Key]

\* C5 as claimed: two different pairs with the same bytes and another
\* key/value boundary have different digests, and so have a pair and the
\* pair with key and value swapped
C5_BoundaryChangesDigest ==
    sums # <<>> /\ pairs[1] # pairs[2] =>
        /\ Concat(pairs[1]) = Concat(pairs[2]) => sums[1] # sums[2]
        /\ pairs[2] = Swapped(pairs[1]) => sums[1] # sums[2]

\* C5, amended: the digest of a pair is the CRC-64 from seed 0 of the key
\* followed by the value, so two pairs with the same concatenation, such as
\* two that differ only in where the boundary falls, have the same digest;
\* swapping key and value changes the digest when it changes the
\* concatenation (keys and values of at most MaxLen bytes)
C5_DigestOfConcatenation ==
    sums # <<>> =>
        /\ \A k \in 1 .. 2 : sums[k] = crc64Update(Zero64, ecmaTable, Concat(pairs[k]))
        /\ Concat(pairs[1]) = Concat(pairs[2]) => sums[1] = sums[2]
        /\ pairs[2] = Swapped(pairs[1]) /\ Concat(pairs[1]) # Concat(pairs[2])
               => sums[1] # sums[2]

\* ("a", "b") and ("ab", ""): a byte moved across the boundary, one digest
C5_Witness ==
    /\ sums # <<>>
    /\ pairs[1] = [Key |-> Slice(<<97>>), Val |-> Slice(<<98>>)]
    /\ pairs[2] = [Key |-> Slice(<<97, 98>>), Val |-> Slice(<<>>)]
    /\ sums[1] = sums[2]
    /\ sums[1] # Zero64

(***************************************************************************)
(* SpecLog: a LogConfig as loaded, and calls of Adjust on it.              *)
(***************************************************************************)
defaultLogMaxDays == 7

defaultLogMaxSize == 512

\* LogConfig with every file default filled in, whatever File is
Adjust_IgnoresFile(c) ==
    [c EXCEPT !.FileMaxSize = IF @ = 0 THEN defaultLogMaxSize ELSE @,
              !.FileMaxDays = IF @ = 0 THEN defaultLogMaxDays ELSE @]

\* func (cfg *LogConfig) Adjust(): the LogConfig afterwards
Adjust(c) ==
    IF Len(c.File) > 0
    THEN LET c1 == IF c.FileMaxSize = 0
                   THEN [c EXCEPT !.FileMaxSize = defaultLogMaxSize] ELSE c
         IN  IF c1.FileMaxDays = 0
             THEN [c1 EXCEPT !.FileMaxDays = defaultLogMaxDays] ELSE c1
    ELSE c

\* the configurations loaded
LogConfigs ==
    [Level          : {"", "info", "debug"},
     File           : {"", "tidb-lightning.log"},
     FileMaxSize    : {0 - 1, 0, 1, 512},
     FileMaxDays    : {0, 1, 7},
     FileMaxBackups : {0, 5}]

\* most calls of Adjust on one LogConfig
MaxAdjust == 2

InitLog ==
    /\ cfg \in LogConfigs
    /\ orig = cfg
    /\ adjusted = 0
    /\ heap = <<>>
    /\ HeapIdle /\ OrderIdle /\ ParIdle /\ DigestIdle

\* cfg.Adjust()
CallAdjust ==
    /\ adjusted < MaxAdjust
    /\ cfg' = Adjust(cfg)
    /\ adjusted' = adjusted + 1
    /\ UNCHANGED <<heap, orig, heapVars, orderVars, parVars, digestVars>>

NextLog == CallAdjust

SpecLog == InitLog /\ [][NextLog]_vars

=============================================================================
